---- MODULE Spec2Model ----
(***************************************************************************)
(* Tristate Checkbox (tristate-checkbox.js): state propagation over a tree *)
(* of checkboxes that is given by nested <ul>/<li> markup.                 *)
(*                                                                         *)
(* The document is modelled at the level of its elements.  Item i is an    *)
(* <li> holding the checkbox <input> i and, when it owns a child list, the *)
(* nested <ul> i.  <ul> 0 is the top-level list under <body>.  par[i] is   *)
(* the owner of the list that holds <li> i (0 for the top-level list).     *)
(* Items are numbered in document order (preorder).                        *)
(***************************************************************************)
EXTENDS Integers, Sequences, FiniteSets, TLC

\* ---- bounds ----
MaxItems == 4      \* most checkboxes in a document
MaxEmptyUl == 1    \* most items that own a child list without items
LifeItems == 3     \* most checkboxes in a document of the lifecycle runs
MaxRoots == 2      \* most entries of an array / NodeList selector

VARIABLES
  par,            \* the markup: par[i] = owner item of the list holding <li> i
  emptyUl,        \* items that own a <ul> with no <li> in it
  checked,        \* checkbox.checked, per item
  indeterminate,  \* checkbox.indeterminate, per item
  phase,          \* "fresh" before new TristateCheckbox(..), then "constructed"
  roots,          \* this.roots
  handlers,       \* this._handlers: [defined, map]
  listeners,      \* 'change' listeners attached to the checkboxes
  errors,         \* number of console.error reports
  thrown,         \* the last call raised an exception
  destroyed,      \* destroy() has been called at least once
  lastOp,         \* the last operation performed, with its arguments
  log             \* the calls and writes of the last operation, in order

vars == <<par, emptyUl, checked, indeterminate, phase, roots, handlers,
          listeners, errors, thrown, destroyed, lastOp, log>>

\* ---- the document ----
Null == <<"null", 0>>
Html == <<"html", 0>>
Body == <<"body", 0>>
Ul(k) == <<"ul", k>>
Li(i) == <<"li", i>>
Input(i) == <<"input", i>>

Items == 1..Len(par)

ChildItems(k) == {i \in Items : par[i] = k}

HasUl(k) == k = 0 \/ ChildItems(k) # {} \/ k \in emptyUl

Uls == {Ul(k) : k \in {j \in 0..Len(par) : HasUl(j)}}

parentElement(e) ==
  CASE e[1] = "input" -> Li(e[2])
    [] e[1] = "li"    -> Ul(par[e[2]])
    [] e[1] = "ul"    -> IF e[2] = 0 THEN Body ELSE Li(e[2])
    [] e[1] = "body"  -> Html
    [] OTHER          -> Null

RECURSIVE IsAncestor(_, _)
IsAncestor(a, e) ==
  LET p == parentElement(e)
  IN  IF p = Null THEN FALSE ELSE p = a \/ IsAncestor(a, p)

\* a set of elements of one tag, as a sequence in document order
RECURSIVE InDocumentOrder(_)
InDocumentOrder(S) ==
  IF S = {} THEN <<>>
  ELSE LET e == CHOOSE x \in S : \A y \in S : x[2] <= y[2]
       IN  <<e>> \o InDocumentOrder(S \ {e})

\* element.closest(tag)
RECURSIVE closest(_, _)
closest(e, tag) ==
  IF e = Null THEN Null
  ELSE IF e[1] = tag THEN e
  ELSE closest(parentElement(e), tag)

\* element.querySelectorAll('ul')
querySelectorAllUl(e) == InDocumentOrder({u \in Uls : IsAncestor(e, u)})

\* element.querySelectorAll('input[type="checkbox"]')
querySelectorAllInput(e) ==
  InDocumentOrder({Input(i) : i \in {j \in Items : IsAncestor(e, Input(j))}})

\* element.querySelector('ul')
querySelectorUl(e) ==
  LET s == querySelectorAllUl(e) IN IF s = <<>> THEN Null ELSE s[1]

\* element.querySelector(':scope > ul')
querySelectorScopeUl(e) ==
  IF e[1] = "li" /\ HasUl(e[2]) THEN Ul(e[2])
  ELSE IF e[1] = "body" THEN Ul(0)
  ELSE Null

\* element.querySelectorAll(':scope > input[type="checkbox"]')
querySelectorAllScopeInput(e) ==
  IF e[1] = "li" THEN <<Input(e[2])>> ELSE <<>>

\* element.querySelector(':scope > input[type="checkbox"]')
querySelectorScopeInput(e) ==
  LET s == querySelectorAllScopeInput(e) IN IF s = <<>> THEN Null ELSE s[1]

\* ul.querySelectorAll(':scope > li > input[type="checkbox"]')
querySelectorAllScopeLiInput(ul) ==
  InDocumentOrder({Input(i) : i \in ChildItems(ul[2])})

\* ---- the state of the checkboxes, st = [checked, indeterminate] ----
Boxes == [checked |-> checked, indeterminate |-> indeterminate]

\* ---- TristateCheckbox ----
\* variant: every element is at depth 0
_getElementDepth_zero(element) == 0

RECURSIVE _getElementDepth(_)
_getElementDepth(element) ==
  IF parentElement(element) = Null THEN 0
  ELSE 1 + _getElementDepth(parentElement(element))

_findParentCheckbox(checkbox) ==
  LET li == closest(checkbox, "li")
  IN  IF li = Null THEN Null
      ELSE LET parentLi == closest(parentElement(li), "li")
           IN  IF parentLi = Null THEN Null
               ELSE querySelectorScopeInput(parentLi)

_findChildCheckboxes(parentCheckbox) ==
  LET li == closest(parentCheckbox, "li")
  IN  IF li = Null THEN <<>>
      ELSE LET ul == querySelectorScopeUl(li)
           IN  IF ul = Null THEN <<>>
               ELSE querySelectorAllScopeLiInput(ul)

\* variant: all children checked still counts as a partial selection
_updateParentState_allIsPartial(st, parentCheckbox) ==
  LET childCheckboxes == _findChildCheckboxes(parentCheckbox)
      n == Len(childCheckboxes)
      indeterminateCount ==
        Cardinality({k \in 1..n : st.indeterminate[childCheckboxes[k][2]]})
      checkedCount ==
        Cardinality({k \in 1..n : /\ ~st.indeterminate[childCheckboxes[k][2]]
                                  /\ st.checked[childCheckboxes[k][2]]})
      p == parentCheckbox[2]
  IN  IF n = 0 THEN st
      ELSE IF indeterminateCount > 0 \/ (checkedCount > 0 /\ checkedCount <= n)
      THEN [checked |-> [st.checked EXCEPT ![p] = FALSE],
            indeterminate |-> [st.indeterminate EXCEPT ![p] = TRUE]]
      ELSE [checked |-> [st.checked EXCEPT ![p] = FALSE],
            indeterminate |-> [st.indeterminate EXCEPT ![p] = FALSE]]

\* variant: the indeterminate children are not counted
_updateParentState_noIndeterminate(st, parentCheckbox) ==
  LET childCheckboxes == _findChildCheckboxes(parentCheckbox)
      n == Len(childCheckboxes)
      checkedCount ==
        Cardinality({k \in 1..n : st.checked[childCheckboxes[k][2]]})
      p == parentCheckbox[2]
  IN  IF n = 0 THEN st
      ELSE IF checkedCount > 0 /\ checkedCount < n
      THEN [checked |-> [st.checked EXCEPT ![p] = FALSE],
            indeterminate |-> [st.indeterminate EXCEPT ![p] = TRUE]]
      ELSE IF checkedCount = n
      THEN [checked |-> [st.checked EXCEPT ![p] = TRUE],
            indeterminate |-> [st.indeterminate EXCEPT ![p] = FALSE]]
      ELSE [checked |-> [st.checked EXCEPT ![p] = FALSE],
            indeterminate |-> [st.indeterminate EXCEPT ![p] = FALSE]]

\* variant: no early return when there is no child checkbox
_updateParentState_noEmptyGuard(st, parentCheckbox) ==
  LET childCheckboxes == _findChildCheckboxes(parentCheckbox)
      n == Len(childCheckboxes)
      indeterminateCount ==
        Cardinality({k \in 1..n : st.indeterminate[childCheckboxes[k][2]]})
      checkedCount ==
        Cardinality({k \in 1..n : /\ ~st.indeterminate[childCheckboxes[k][2]]
                                  /\ st.checked[childCheckboxes[k][2]]})
      p == parentCheckbox[2]
  IN  IF indeterminateCount > 0 \/ (checkedCount > 0 /\ checkedCount < n)
      THEN [checked |-> [st.checked EXCEPT ![p] = FALSE],
            indeterminate |-> [st.indeterminate EXCEPT ![p] = TRUE]]
      ELSE IF checkedCount = n
      THEN [checked |-> [st.checked EXCEPT ![p] = TRUE],
            indeterminate |-> [st.indeterminate EXCEPT ![p] = FALSE]]
      ELSE [checked |-> [st.checked EXCEPT ![p] = FALSE],
            indeterminate |-> [st.indeterminate EXCEPT ![p] = FALSE]]

_updateParentState(st, parentCheckbox) ==
  LET childCheckboxes == _findChildCheckboxes(parentCheckbox)
      n == Len(childCheckboxes)
      indeterminateCount ==
        Cardinality({k \in 1..n : st.indeterminate[childCheckboxes[k][2]]})
      checkedCount ==
        Cardinality({k \in 1..n : /\ ~st.indeterminate[childCheckboxes[k][2]]
                                  /\ st.checked[childCheckboxes[k][2]]})
      p == parentCheckbox[2]
  IN  IF n = 0 THEN st
      ELSE IF indeterminateCount > 0 \/ (checkedCount > 0 /\ checkedCount < n)
      THEN [checked |-> [st.checked EXCEPT ![p] = FALSE],
            indeterminate |-> [st.indeterminate EXCEPT ![p] = TRUE]]
      ELSE IF checkedCount = n
      THEN [checked |-> [st.checked EXCEPT ![p] = TRUE],
            indeterminate |-> [st.indeterminate EXCEPT ![p] = FALSE]]
      ELSE [checked |-> [st.checked EXCEPT ![p] = FALSE],
            indeterminate |-> [st.indeterminate EXCEPT ![p] = FALSE]]

\* variant: every ancestor takes the value of the checkbox below it
RECURSIVE _updateAncestorCheckboxes_copyUp(_, _)
_updateAncestorCheckboxes_copyUp(st, checkbox) ==
  LET parent == _findParentCheckbox(checkbox)
  IN  IF parent = Null THEN st
      ELSE _updateAncestorCheckboxes_copyUp(
             [checked |-> [st.checked EXCEPT
                             ![parent[2]] = st.checked[checkbox[2]]],
              indeterminate |-> [st.indeterminate EXCEPT
                             ![parent[2]] = FALSE]],
             parent)

\* variant: only the immediate parent is recomputed
_updateAncestorCheckboxes_parentOnly(st, checkbox) ==
  LET parent == _findParentCheckbox(checkbox)
  IN  IF parent = Null THEN st ELSE _updateParentState(st, parent)

RECURSIVE _updateAncestorCheckboxes(_, _)
_updateAncestorCheckboxes(st, checkbox) ==
  LET parent == _findParentCheckbox(checkbox)
  IN  IF parent = Null THEN st
      ELSE _updateAncestorCheckboxes(_updateParentState(st, parent), parent)

\* variant: only the immediate children are written
_setChildCheckboxes_immediate(st, parentCheckbox, isChecked) ==
  LET childCheckboxes == _findChildCheckboxes(parentCheckbox)
      S == {childCheckboxes[k][2] : k \in 1..Len(childCheckboxes)}
  IN  [checked |-> [i \in DOMAIN st.checked |->
         IF i \in S THEN isChecked ELSE st.checked[i]],
       indeterminate |-> [i \in DOMAIN st.indeterminate |->
         IF i \in S THEN FALSE ELSE st.indeterminate[i]]]

\* variant: an item without a list of its own writes the list it is in
_setChildCheckboxes_enclosingList(st, parentCheckbox, isChecked) ==
  LET li == closest(parentCheckbox, "li")
  IN  IF li = Null THEN st
      ELSE LET ul == IF querySelectorUl(li) = Null THEN closest(li, "ul")
                     ELSE querySelectorUl(li)
           IN  IF ul = Null THEN st
               ELSE LET childCheckboxes == querySelectorAllInput(ul)
                        S == {childCheckboxes[k][2] :
                                k \in 1..Len(childCheckboxes)}
                    IN  [checked |-> [i \in DOMAIN st.checked |->
                           IF i \in S THEN isChecked ELSE st.checked[i]],
                         indeterminate |-> [i \in DOMAIN st.indeterminate |->
                           IF i \in S THEN FALSE ELSE st.indeterminate[i]]]

\* variant: the list written is the one that holds the item
_setChildCheckboxes_parentList(st, parentCheckbox, isChecked) ==
  LET li == closest(parentCheckbox, "li")
  IN  IF li = Null THEN st
      ELSE LET ul == parentElement(li)
           IN  IF ul = Null THEN st
               ELSE LET childCheckboxes == querySelectorAllInput(ul)
                        S == {childCheckboxes[k][2] :
                                k \in 1..Len(childCheckboxes)}
                    IN  [checked |-> [i \in DOMAIN st.checked |->
                           IF i \in S THEN isChecked ELSE st.checked[i]],
                         indeterminate |-> [i \in DOMAIN st.indeterminate |->
                           IF i \in S THEN FALSE ELSE st.indeterminate[i]]]

_setChildCheckboxes(st, parentCheckbox, isChecked) ==
  LET li == closest(parentCheckbox, "li")
  IN  IF li = Null THEN st
      ELSE LET ul == querySelectorUl(li)
           IN  IF ul = Null THEN st
               ELSE LET childCheckboxes == querySelectorAllInput(ul)
                        S == {childCheckboxes[k][2] :
                                k \in 1..Len(childCheckboxes)}
                    IN  [checked |-> [i \in DOMAIN st.checked |->
                           IF i \in S THEN isChecked ELSE st.checked[i]],
                         indeterminate |-> [i \in DOMAIN st.indeterminate |->
                           IF i \in S THEN FALSE ELSE st.indeterminate[i]]]

\* variant: the children are not written, only the ancestors recomputed
_createChangeHandler_noDownward(st, checkbox) ==
  _updateAncestorCheckboxes(st, checkbox)

\* the closure returned by _createChangeHandler(checkbox)
_createChangeHandler(st, checkbox) ==
  LET isChecked == st.checked[checkbox[2]]
  IN  _updateAncestorCheckboxes(
        _setChildCheckboxes(st, checkbox, isChecked), checkbox)

\* ---- the same code, read as the sequence of its calls and writes ----
\* An entry is <<kind, item, checked, indeterminate>>: "handler" is a run of
\* the change handler of the item's checkbox, "write" an assignment of both
\* fields in _setChildCheckboxes, "update" a call of _updateParentState with
\* the values the checkbox holds when the call returns.
Entry(kind, i, st) == <<kind, i, st.checked[i], st.indeterminate[i]>>

\* childCheckboxes.forEach(checkbox => ...) of _setChildCheckboxes
_setChildCheckboxesLog(st, parentCheckbox, isChecked) ==
  LET li == closest(parentCheckbox, "li")
  IN  IF li = Null THEN <<>>
      ELSE LET ul == querySelectorUl(li)
           IN  IF ul = Null THEN <<>>
               ELSE LET childCheckboxes == querySelectorAllInput(ul)
                    IN  [k \in 1..Len(childCheckboxes) |->
                           <<"write", childCheckboxes[k][2], isChecked, FALSE>>]

\* the while loop of _updateAncestorCheckboxes
RECURSIVE _updateAncestorCheckboxesLog(_, _)
_updateAncestorCheckboxesLog(st, checkbox) ==
  LET parent == _findParentCheckbox(checkbox)
  IN  IF parent = Null THEN <<>>
      ELSE LET st2 == _updateParentState(st, parent)
           IN  <<Entry("update", parent[2], st2)>>
                 \o _updateAncestorCheckboxesLog(st2, parent)

\* the closure returned by _createChangeHandler(checkbox)
\* variant: the ancestors are recomputed before the children are written
_createChangeHandlerLog_upwardFirst(st, checkbox) ==
  LET isChecked == st.checked[checkbox[2]]
  IN  <<Entry("handler", checkbox[2], st)>>
        \o _updateAncestorCheckboxesLog(st, checkbox)
        \o _setChildCheckboxesLog(st, checkbox, isChecked)

_createChangeHandlerLog(st, checkbox) ==
  LET isChecked == st.checked[checkbox[2]]
  IN  <<Entry("handler", checkbox[2], st)>>
        \o _setChildCheckboxesLog(st, checkbox, isChecked)
        \o _updateAncestorCheckboxesLog(
             _setChildCheckboxes(st, checkbox, isChecked), checkbox)

\* allUls.sort((a, b) => depthB - depthA): stable, deepest first
\* variant: the comparison is reversed, shallowest first
RECURSIVE InsertByDepth_shallowestFirst(_, _)
InsertByDepth_shallowestFirst(sorted, ul) ==
  IF sorted = <<>> THEN <<ul>>
  ELSE IF _getElementDepth(ul) < _getElementDepth(Head(sorted))
       THEN <<ul>> \o sorted
       ELSE <<Head(sorted)>> \o InsertByDepth_shallowestFirst(Tail(sorted), ul)

RECURSIVE InsertByDepth(_, _)
InsertByDepth(sorted, ul) ==
  IF sorted = <<>> THEN <<ul>>
  ELSE IF _getElementDepth(ul) > _getElementDepth(Head(sorted))
       THEN <<ul>> \o sorted
       ELSE <<Head(sorted)>> \o InsertByDepth(Tail(sorted), ul)

\* variant: the lists are left in document order
SortDeepestFirst_unsorted(uls) == uls

RECURSIVE SortDeepestFirst(_)
SortDeepestFirst(uls) ==
  IF uls = <<>> THEN <<>>
  ELSE InsertByDepth(SortDeepestFirst(SubSeq(uls, 1, Len(uls) - 1)),
                     uls[Len(uls)])

\* parentCheckboxes.forEach(checkbox => this._updateParentState(checkbox))
RECURSIVE UpdateEach(_, _)
UpdateEach(st, checkboxes) ==
  IF checkboxes = <<>> THEN st
  ELSE UpdateEach(_updateParentState(st, Head(checkboxes)), Tail(checkboxes))

\* sortedUls.forEach(ul => ...)
RECURSIVE ProcessUls(_, _)
ProcessUls(st, sortedUls) ==
  IF sortedUls = <<>> THEN st
  ELSE LET ul == Head(sortedUls)
           parentCheckboxes == querySelectorAllScopeInput(parentElement(ul))
       IN  ProcessUls(UpdateEach(st, parentCheckboxes), Tail(sortedUls))

_initializeState(st, root) ==
  LET allUls == querySelectorAllUl(root)
      sortedUls == SortDeepestFirst(allUls)
  IN  ProcessUls(st, sortedUls)

\* parentCheckboxes.forEach(..), as the sequence of its calls
RECURSIVE UpdateEachLog(_, _)
UpdateEachLog(st, checkboxes) ==
  IF checkboxes = <<>> THEN <<>>
  ELSE LET st2 == _updateParentState(st, Head(checkboxes))
       IN  <<Entry("update", Head(checkboxes)[2], st2)>>
             \o UpdateEachLog(st2, Tail(checkboxes))

\* sortedUls.forEach(..), as the sequence of its calls
RECURSIVE ProcessUlsLog(_, _)
ProcessUlsLog(st, sortedUls) ==
  IF sortedUls = <<>> THEN <<>>
  ELSE LET ul == Head(sortedUls)
           parentCheckboxes == querySelectorAllScopeInput(parentElement(ul))
       IN  UpdateEachLog(st, parentCheckboxes)
             \o ProcessUlsLog(UpdateEach(st, parentCheckboxes), Tail(sortedUls))

\* variant: the lists are processed in document order, unsorted
_initializeStateLog_documentOrder(st, root) ==
  ProcessUlsLog(st, querySelectorAllUl(root))

_initializeStateLog(st, root) ==
  ProcessUlsLog(st, SortDeepestFirst(querySelectorAllUl(root)))

\* ---- the instance ----
\* A selector value: a CSS string (with the lists it matches), an Element, an
\* array / NodeList of elements, or any other value.
NoSelector == [kind |-> "none", matches |-> {}, el |-> Null, list |-> <<>>]

\* variant: an unsupported value falls back to document.body
_getElements_fallback(selector) ==
  IF selector.kind = "string" THEN InDocumentOrder(selector.matches)
  ELSE IF selector.kind = "element" THEN <<selector.el>>
  ELSE IF selector.kind = "list" THEN selector.list
  ELSE <<Body>>

_getElements(selector) ==
  IF selector.kind = "string" THEN InDocumentOrder(selector.matches)
  ELSE IF selector.kind = "element" THEN <<selector.el>>
  ELSE IF selector.kind = "list" THEN selector.list
  ELSE <<>>

\* this._handlers.set(checkbox, handler); checkbox.addEventListener(..) for
\* every checkbox of the root.  A handler is named by the checkbox it closes
\* over and the position in this.roots of the root it was created for.
AttachHandlers(acc, checkboxes, r) ==
  LET B == {checkboxes[k][2] : k \in 1..Len(checkboxes)}
  IN  [st |-> acc.st,
       map |-> {h \in acc.map : h[1] \notin B} \cup {<<i, r>> : i \in B},
       listeners |-> acc.listeners \cup {<<i, r>> : i \in B},
       log |-> acc.log]

\* this.roots.forEach(root => ...), from position r on
RECURSIVE InitRoots(_, _, _)
InitRoots(acc, rts, r) ==
  IF r > Len(rts) THEN acc
  ELSE LET root == rts[r]
           a == AttachHandlers(acc, querySelectorAllInput(root), r)
       IN  InitRoots([st |-> _initializeState(a.st, root),
                      map |-> a.map, listeners |-> a.listeners,
                      log |-> a.log \o _initializeStateLog(a.st, root)],
                     rts, r + 1)

_init(st, rts, lis) ==
  InitRoots([st |-> st, map |-> {}, listeners |-> lis, log |-> <<>>], rts, 1)

\* dispatching 'change' on a checkbox runs each listener attached to it; all
\* of them are closures of the same body over the same checkbox
RECURSIVE RunHandlers(_, _, _)
RunHandlers(st, checkbox, k) ==
  IF k = 0 THEN st
  ELSE RunHandlers(_createChangeHandler(st, checkbox), checkbox, k - 1)

dispatchChange(st, checkbox, lis) ==
  RunHandlers(st, checkbox, Cardinality({l \in lis : l[1] = checkbox[2]}))

\* checkbox.checked = v; checkbox.dispatchEvent(new Event('change')), on st
setAndDispatch(st, n, v, lis) ==
  dispatchChange([checked |-> [st.checked EXCEPT ![n] = v],
                  indeterminate |-> st.indeterminate], Input(n), lis)

RECURSIVE RunHandlersLog(_, _, _)
RunHandlersLog(st, checkbox, k) ==
  IF k = 0 THEN <<>>
  ELSE _createChangeHandlerLog(st, checkbox)
         \o RunHandlersLog(_createChangeHandler(st, checkbox), checkbox, k - 1)

dispatchChangeLog(st, checkbox, lis) ==
  RunHandlersLog(st, checkbox, Cardinality({l \in lis : l[1] = checkbox[2]}))

\* ---- the documents and selectors that are drawn ----
RECURSIVE OnPath(_, _, _)
OnPath(p, a, i) == i # 0 /\ (a = i \/ OnPath(p, a, p[i]))

IsPreorder(p) ==
  \A i \in 1..Len(p) :
    /\ p[i] < i
    /\ p[i] = 0 \/ (i > 1 /\ OnPath(p, p[i], i - 1))

Forests(max) ==
  UNION {{p \in [1..n -> 0..(n - 1)] : IsPreorder(p)} : n \in 1..max}

Leaves(p) == {i \in 1..Len(p) : \A j \in 1..Len(p) : p[j] # i}

Selectors ==
  {[kind |-> "string", matches |-> S, el |-> Null, list |-> <<>>] :
     S \in {T \in SUBSET Uls : Cardinality(T) <= MaxRoots}}
  \cup {[kind |-> "element", matches |-> {}, el |-> u, list |-> <<>>] :
          u \in Uls}
  \cup {[kind |-> "list", matches |-> {}, el |-> Null, list |-> q] :
          q \in UNION {[1..n -> Uls] : n \in 0..MaxRoots}}
  \cup {[kind |-> "other", matches |-> {}, el |-> Null, list |-> <<>>]}

Op(op, node, value, sel) ==
  [op |-> op, node |-> node, value |-> value, sel |-> sel]

\* selectors that resolve to the top-level list alone
TreeSelectors ==
  {[kind |-> "string", matches |-> {Ul(0)}, el |-> Null, list |-> <<>>]}

\* the checkboxes that carry a state of their own in the markup
Free(p, leavesOnly) == IF leavesOnly THEN Leaves(p) ELSE 1..Len(p)

\* the page before the component is created: any markup of at most maxItems
\* items; the free checkboxes carry any state, the others are unchecked
InitPage(maxItems, maxEmpty, leavesOnly) ==
  /\ par \in Forests(maxItems)
  /\ emptyUl \in {E \in SUBSET Leaves(par) : Cardinality(E) <= maxEmpty}
  /\ checked \in {f \in [1..Len(par) -> BOOLEAN] :
                    \A i \in 1..Len(par) : f[i] => i \in Free(par, leavesOnly)}
  /\ indeterminate \in {f \in [1..Len(par) -> BOOLEAN] :
                    \A i \in 1..Len(par) : f[i] => i \in Free(par, leavesOnly)}
  /\ phase = "fresh"
  /\ roots = <<>>
  /\ handlers = [defined |-> FALSE, map |-> {}]
  /\ listeners = {}
  /\ errors = 0
  /\ thrown = FALSE
  /\ destroyed = FALSE
  /\ lastOp = Op("none", 0, FALSE, NoSelector)
  /\ log = <<>>

\* new TristateCheckbox(selector)
constructor(selector) ==
  LET rts == _getElements(selector)
  IN  /\ phase = "fresh"
      /\ phase' = "constructed"
      /\ roots' = rts
      /\ IF Len(rts) = 0
         THEN /\ errors' = errors + 1
              /\ log' = <<>>
              /\ UNCHANGED <<handlers, listeners, checked, indeterminate>>
         ELSE \E r \in {_init(Boxes, rts, listeners)} :
                  /\ handlers' = [defined |-> TRUE, map |-> r.map]
                  /\ listeners' = r.listeners
                  /\ checked' = r.st.checked
                  /\ indeterminate' = r.st.indeterminate
                  /\ log' = r.log
                  /\ UNCHANGED errors
      /\ thrown' = FALSE
      /\ lastOp' = Op("construct", 0, FALSE, selector)
      /\ UNCHANGED <<par, emptyUl, destroyed>>

Construct == \E selector \in TreeSelectors : constructor(selector)

ConstructAny == \E selector \in Selectors : constructor(selector)

\* checkbox.checked = v; checkbox.dispatchEvent(new Event('change'))
onToggle(n, v) ==
  LET set == [checked |-> [checked EXCEPT ![n] = v],
              indeterminate |-> indeterminate]
  IN  \E r \in {dispatchChange(set, Input(n), listeners)} :
      /\ phase = "constructed"
      /\ checked' = r.checked
      /\ indeterminate' = r.indeterminate
      /\ thrown' = FALSE
      /\ lastOp' = Op("toggle", n, v, NoSelector)
      /\ log' = dispatchChangeLog(set, Input(n), listeners)
      /\ UNCHANGED <<par, emptyUl, phase, roots, handlers, listeners, errors,
                     destroyed>>

\* a toggle flips the checkbox
Toggle == \E n \in Items, v \in BOOLEAN : checked[n] # v /\ onToggle(n, v)

\* this._initializeState(root), called again for one of this.roots
initializeState(r) ==
  \E st \in {_initializeState(Boxes, roots[r])} :
      /\ phase = "constructed"
      /\ checked' = st.checked
      /\ indeterminate' = st.indeterminate
      /\ thrown' = FALSE
      /\ lastOp' = Op("initializeState", r, FALSE, NoSelector)
      /\ log' = _initializeStateLog(Boxes, roots[r])
      /\ UNCHANGED <<par, emptyUl, phase, roots, handlers, listeners, errors,
                     destroyed>>

Reinitialize == \E r \in 1..Len(roots) : initializeState(r)

\* instance.destroy()
destroy ==
  /\ phase = "constructed"
  /\ IF ~handlers.defined
     THEN \* this._handlers is undefined: TypeError
          /\ thrown' = TRUE
          /\ UNCHANGED <<handlers, listeners>>
     ELSE /\ listeners' = listeners \ handlers.map
          /\ handlers' = [defined |-> TRUE, map |-> {}]
          /\ thrown' = FALSE
  /\ destroyed' = TRUE
  /\ lastOp' = Op("destroy", 0, FALSE, NoSelector)
  /\ log' = <<>>
  /\ UNCHANGED <<par, emptyUl, checked, indeterminate, phase, roots, errors>>

\* markup whose parent checkboxes carry no state of their own
Init == InitPage(MaxItems, 0, TRUE)

Next == Construct \/ Toggle \/ Reinitialize

\* one component attached to the whole tree
Spec == Init /\ [][Next]_vars

InitLife == InitPage(LifeItems, 0, TRUE)

NextLife == ConstructAny \/ Toggle \/ destroy

\* markup whose leaf checkboxes are checked or unchecked, never indeterminate
InitClean ==
  /\ Init
  /\ \A i \in Leaves(par) : ~indeterminate[i]

SpecClean == InitClean /\ [][Next]_vars

InitAny == InitPage(MaxItems, MaxEmptyUl, FALSE)

NextInit == Construct \/ Reinitialize

\* construction on markup whose checkboxes carry any state
SpecInit == InitAny /\ [][NextInit]_vars

\* this._updateParentState(checkbox) applied to one checkbox of the page
updateParentState(p) ==
  \E st \in {_updateParentState(Boxes, Input(p))} :
      /\ checked' = st.checked
      /\ indeterminate' = st.indeterminate
      /\ lastOp' = Op("updateParentState", p, FALSE, NoSelector)
      /\ log' = <<Entry("update", p, st)>>
      /\ UNCHANGED <<par, emptyUl, phase, roots, handlers, listeners, errors,
                     thrown, destroyed>>

UpdateParent == \E p \in Items : updateParentState(p)

\* the parent-state rule on its own, on any state of the checkboxes
SpecRule == InitAny /\ [][UpdateParent]_vars

\* roots given as an element: the top-level list, or the body around it
GroupSelectors ==
  {[kind |-> "element", matches |-> {}, el |-> u, list |-> <<>>] :
     u \in {Ul(0), Body}}

ConstructGroup == \E selector \in GroupSelectors : constructor(selector)

InitGroup == InitPage(LifeItems, MaxEmptyUl, FALSE)

NextGroup == ConstructGroup \/ Reinitialize \/ UpdateParent

\* the recomputations over pages with empty lists, and with the top-level
\* list itself among the lists of the root
SpecGroup == InitGroup /\ [][NextGroup]_vars

\* the life of an instance, from any selector value to destroy()
SpecLife == InitLife /\ [][NextLife]_vars

\* ---- vocabulary of the properties ----
\* d lies below n in the tree of checkboxes
IsDescendant(d, n) == OnPath(par, n, par[d])

Attached(n) == \E l \in listeners : l[1] = n

\* the parent-state rule P1 at node a, read off its immediate children
P1(a) ==
  LET C == ChildItems(a)
  IN  /\ checked[a] <=> \A c \in C : checked[c] /\ ~indeterminate[c]
      /\ indeterminate[a] <=>
            \/ \E c \in C : indeterminate[c]
            \/ (\E c \in C : checked[c]) /\ (\E c \in C : ~checked[c])

\* C1: after the change handler has run for node N with N.checked = v, every
\* descendant of N, at any depth, has checked = v and is not indeterminate.
C1_DownwardForce ==
  (lastOp.op = "toggle" /\ Attached(lastOp.node)) =>
    \A d \in Items :
      IsDescendant(d, lastOp.node) =>
        checked[d] = lastOp.value /\ ~indeterminate[d]

\* a checked toggle has reached a grandchild
C1_Witness ==
  /\ lastOp.op = "toggle" /\ Attached(lastOp.node) /\ lastOp.value
  /\ \E d \in Items :
       /\ IsDescendant(d, lastOp.node) /\ par[d] # lastOp.node
       /\ checked[d]

\* C2: after one toggle of node N every proper ancestor of N satisfies the
\* parent-state rule against the post-toggle states of its own children.
C2_UpwardConsistency ==
  (lastOp.op = "toggle" /\ Attached(lastOp.node)) =>
    \A a \in Items : IsDescendant(lastOp.node, a) => P1(a)

\* a toggle two levels down has left the grandparent indeterminate
C2_Witness ==
  /\ lastOp.op = "toggle" /\ Attached(lastOp.node)
  /\ \E a \in Items :
       /\ IsDescendant(lastOp.node, a) /\ par[lastOp.node] # a
       /\ indeterminate[a] /\ ~checked[a]

\* C3: _updateParentState on a checkbox with at least one immediate child
\* leaves it checked when all children are checked and none indeterminate,
\* unchecked when all are unchecked and none indeterminate, indeterminate
\* and unchecked otherwise: a function of the immediate children alone.
C3_ParentStateRule ==
  (lastOp.op = "updateParentState" /\ ChildItems(lastOp.node) # {}) =>
    LET p == lastOp.node
        C == ChildItems(p)
    IN  IF \A c \in C : checked[c] /\ ~indeterminate[c]
        THEN checked[p] /\ ~indeterminate[p]
        ELSE IF \A c \in C : ~checked[c] /\ ~indeterminate[c]
        THEN ~checked[p] /\ ~indeterminate[p]
        ELSE indeterminate[p] /\ ~checked[p]

\* the rule has made a parent indeterminate over an indeterminate child whose
\* siblings are all unchecked, with a checked grandchild below
C3_Witness ==
  /\ lastOp.op = "updateParentState"
  /\ indeterminate[lastOp.node] /\ ~checked[lastOp.node]
  /\ \E c \in ChildItems(lastOp.node) : indeterminate[c]
  /\ \A c \in ChildItems(lastOp.node) : ~checked[c]

HasChildren(a) == ChildItems(a) # {}

\* C4: after construction and after every toggle that follows it, every node
\* with at least one immediate child satisfies the parent-state rule, the
\* toggled node included.
C4_GlobalConsistency ==
  (lastOp.op \in {"construct", "toggle"}) =>
    \A a \in Items : HasChildren(a) => P1(a)

\* C5: on a tree whose leaves were not indeterminate when it was attached,
\* no node is ever indeterminate and checked at once.
C5_MutualExclusion ==
  phase = "constructed" =>
    \A i \in Items : ~(indeterminate[i] /\ checked[i])

\* C6: when _initializeState has completed, every node with at least one
\* immediate child satisfies the parent-state rule against the final states
\* of its children.
C6_InitializationCorrect ==
  (lastOp.op \in {"construct", "initializeState"}) =>
    \A a \in Items : HasChildren(a) => P1(a)

\* construction has made a parent indeterminate over a child that the same
\* pass made indeterminate
C6_Witness ==
  /\ lastOp.op = "construct"
  /\ \E a \in Items, c \in Items :
       /\ par[c] = a /\ HasChildren(c)
       /\ indeterminate[c] /\ indeterminate[a]
       /\ \E g \in ChildItems(c) : checked[g] /\ ~indeterminate[g]

\* C7: running _initializeState again right after it has run, with no toggle
\* in between, changes no checkbox.
C7_InitializationIdempotent ==
  [][(lastOp.op \in {"construct", "initializeState"}
        /\ lastOp'.op = "initializeState")
      => (checked' = checked /\ indeterminate' = indeterminate)]_vars

\* a second pass has run over a tree that holds an indeterminate parent
C7_Witness ==
  /\ lastOp.op = "initializeState"
  /\ \E a \in Items : HasChildren(a) /\ indeterminate[a]
  /\ \E a \in Items : HasChildren(a) /\ checked[a]

\* the selector values that resolve to no container
ResolvesToNone(sel) ==
  \/ sel.kind = "other"
  \/ sel.kind = "string" /\ sel.matches = {}
  \/ sel.kind = "list" /\ sel.list = <<>>

\* C8: constructing on a selector that resolves to no container reports one
\* error, raises nothing, leaves the root set empty, attaches no listener
\* and changes no checkbox.
C8_ResolutionFailureInert ==
  [][(lastOp'.op = "construct" /\ ResolvesToNone(lastOp'.sel)) =>
       /\ roots' = <<>>
       /\ errors' = errors + 1
       /\ ~thrown'
       /\ listeners' = {}
       /\ checked' = checked /\ indeterminate' = indeterminate]_vars

\* an inert instance over a page whose parent checkbox is still unchecked
\* above a checked child
C8_Witness ==
  /\ lastOp.op = "construct" /\ ResolvesToNone(lastOp.sel)
  /\ roots = <<>> /\ errors = 1 /\ listeners = {}
  /\ \E a \in Items, c \in Items :
       par[c] = a /\ checked[c] /\ ~checked[a] /\ ~indeterminate[a]

\* C9: destroy() never raises, a second destroy() changes nothing, and after
\* destroy() a change notification modifies no checkbox beyond the one the
\* user has set.
C9_Teardown ==
  [][/\ lastOp'.op = "destroy" => ~thrown'
     /\ (destroyed /\ lastOp'.op = "destroy") =>
          UNCHANGED <<checked, indeterminate, roots, handlers, listeners>>
     /\ (destroyed /\ lastOp'.op = "toggle") =>
          /\ indeterminate' = indeterminate
          /\ \A i \in Items : i # lastOp'.node => checked'[i] = checked[i]
    ]_vars

\* the tree root -> child -> {leaf1, leaf2}
Chain == <<0, 1, 2, 2>>

AllUnchecked == \A i \in Items : ~checked[i] /\ ~indeterminate[i]

\* leaf a checked, the other leaf unchecked, child and root indeterminate
OneLeafChecked(a) ==
  /\ \A i \in {3, 4} : checked[i] = (i = a) /\ ~indeterminate[i]
  /\ \A i \in {1, 2} : indeterminate[i] /\ ~checked[i]

AllChecked == \A i \in Items : checked[i] /\ ~indeterminate[i]

\* C10: on root -> child -> {leaf1, leaf2}, all unchecked after
\* initialization, checking one leaf leaves child and root indeterminate and
\* not checked; checking the other leaf next leaves child and root checked
\* and not indeterminate.
C10_ThreeLevelTrace ==
  [][\A a \in {3, 4} : \A b \in {3, 4} \ {a} :
       /\ (par = Chain /\ AllUnchecked /\ lastOp.op = "construct"
             /\ lastOp' = Op("toggle", a, TRUE, NoSelector))
           => OneLeafChecked(a)'
       /\ (par = Chain /\ OneLeafChecked(a)
             /\ lastOp = Op("toggle", a, TRUE, NoSelector)
             /\ lastOp' = Op("toggle", b, TRUE, NoSelector))
           => AllChecked']_vars

\* the second leaf has just been checked and the whole chain is checked
C10_Witness ==
  /\ par = Chain /\ AllChecked
  /\ lastOp = Op("toggle", 4, TRUE, NoSelector)

\* the tree parent -> {child1, child2}
Pair == <<0, 1, 1>>

\* C11: on one parent with two children, all unchecked after initialization,
\* checking the parent leaves both children and the parent checked and not
\* indeterminate; unchecking one child next leaves the parent indeterminate
\* and not checked while the other child stays checked.
C11_TwoLevelTrace ==
  [][/\ (par = Pair /\ AllUnchecked /\ lastOp.op = "construct"
           /\ lastOp' = Op("toggle", 1, TRUE, NoSelector))
         => AllChecked'
     /\ \A c \in {2, 3} : \A o \in {2, 3} \ {c} :
          (par = Pair /\ AllChecked
            /\ lastOp = Op("toggle", 1, TRUE, NoSelector)
            /\ lastOp' = Op("toggle", c, FALSE, NoSelector))
          => /\ indeterminate'[1] /\ ~checked'[1]
             /\ ~checked'[c] /\ ~indeterminate'[c]
             /\ checked'[o] /\ ~indeterminate'[o]]_vars

\* one child has just been unchecked under the parent that was checked
C11_Witness ==
  /\ par = Pair /\ lastOp = Op("toggle", 2, FALSE, NoSelector)
  /\ indeterminate[1] /\ ~checked[1]
  /\ ~checked[2] /\ checked[3] /\ ~indeterminate[3]

\* the proper ancestors of item n, nearest first
RECURSIVE AncestorsOf(_)
AncestorsOf(n) == IF par[n] = 0 THEN <<>> ELSE <<par[n]>> \o AncestorsOf(par[n])

Descendants(n) == {d \in Items : IsDescendant(d, n)}

\* the positions of the log whose entry has the given kind
Positions(kind) == {k \in 1..Len(log) : log[k][1] = kind}

\* C12: within one toggle of node n the handler runs once; all writes to the
\* descendants of n come before the first recomputation of an ancestor and
\* each descendant is written once; then each proper ancestor is recomputed
\* exactly once, nearest parent first and the top-level ancestor last; the
\* values written are the values the step leaves.
C12_PassOrdering ==
  lastOp.op = "toggle" =>
    LET n == lastOp.node
        w == Cardinality(Descendants(n))
        anc == AncestorsOf(n)
    IN  /\ Positions("handler") = {1} /\ log[1][2] = n
        /\ Positions("write") = 2..(1 + w)
        /\ {log[k][2] : k \in Positions("write")} = Descendants(n)
        /\ Len(log) = 1 + w + Len(anc)
        /\ \A k \in 1..Len(anc) :
             /\ log[1 + w + k][1] = "update"
             /\ log[1 + w + k][2] = anc[k]
        /\ Len(anc) > 0 => par[anc[Len(anc)]] = 0
        /\ \A k \in 2..Len(log) :
             /\ checked[log[k][2]] = log[k][3]
             /\ indeterminate[log[k][2]] = log[k][4]
        /\ \A k \in Positions("write") :
             log[k][3] = lastOp.value /\ ~log[k][4]

\* a node with one descendant and two proper ancestors has been toggled
C12_Witness ==
  /\ par = <<0, 1, 2, 3>> /\ lastOp.op = "toggle" /\ lastOp.node = 3
  /\ Len(log) = 4
  /\ log[2][1] = "write" /\ log[2][2] = 4
  /\ log[3][1] = "update" /\ log[3][2] = 2
  /\ log[4][1] = "update" /\ log[4][2] = 1

\* the grouping nodes: the items that own a child list
Groupings == {i \in Items : HasUl(i)}

\* C13: in one pass of _initializeState every grouping node is recomputed
\* exactly once, a grouping that is a proper descendant of another is
\* recomputed before it, and the depths of the groupings recomputed never
\* increase along the pass.
C13_InitializationOrder ==
  (lastOp.op \in {"construct", "initializeState"}) =>
    /\ \A k \in 1..Len(log) : log[k][1] = "update"
    /\ \A g \in Groupings :
         Cardinality({k \in 1..Len(log) : log[k][2] = g}) = 1
    /\ Len(log) = Cardinality(Groupings)
    /\ \A j, k \in 1..Len(log) :
         IsDescendant(log[j][2], log[k][2]) => j < k
    /\ \A j, k \in 1..Len(log) :
         j < k => Len(AncestorsOf(log[j][2])) >= Len(AncestorsOf(log[k][2]))
    /\ \A k \in 1..Len(log) :
         /\ checked[log[k][2]] = log[k][3]
         /\ indeterminate[log[k][2]] = log[k][4]

\* a pass has recomputed a nested grouping that follows a shallower one in
\* document order, and then the shallower ones
C13_Witness ==
  /\ par = <<0, 1, 1, 3>> /\ emptyUl = {2} /\ lastOp.op = "construct"
  /\ Len(log) = 3
  /\ log[1][2] = 2 /\ log[2][2] = 3 /\ log[3][2] = 1

\* the sequences of the child lists in S whose depth never increases
RECURSIVE DepthOrders(_)
DepthOrders(S) ==
  IF S = {} THEN {<<>>}
  ELSE LET deepest == {u \in S : \A w \in S :
                         Len(AncestorsOf(u[2])) >= Len(AncestorsOf(w[2]))}
       IN  UNION {{<<u>> \o q : q \in DepthOrders(S \ {u})} : u \in deepest}

\* C14: the state that _initializeState leaves is the state that every
\* processing order of the groupings with non-increasing depth leaves, so
\* the order among groupings of equal depth does not matter.
C14_OrderIndependence ==
  [][(lastOp'.op \in {"construct", "initializeState"} /\ Len(roots') = 1)
      => \A q \in DepthOrders({Ul(g) : g \in Groupings}) :
           ProcessUls(Boxes, q)
             = [checked |-> checked', indeterminate |-> indeterminate']]_vars

\* a pass has recomputed two groupings of equal depth, in a tree where they
\* can be processed in either order
C14_Witness ==
  /\ par = <<0, 1, 0, 3>> /\ emptyUl = {} /\ lastOp.op = "construct"
  /\ Cardinality(DepthOrders({Ul(g) : g \in Groupings})) = 2
  /\ checked[2] /\ checked[1] /\ ~indeterminate[1]
  /\ indeterminate[4] /\ indeterminate[3]

Unchanged(i) ==
  checked'[i] = checked[i] /\ indeterminate'[i] = indeterminate[i]

\* C15: recomputing a node that owns a child list with no child nodes, in
\* an initialization pass or on its own, leaves its checked and
\* indeterminate values as they were; a child list whose owner has no
\* checkbox, as the top-level list under a root that encloses it, causes no
\* update: the pass recomputes the owners that have a checkbox and nothing
\* else, and changes no node without children.
C15_EmptyGroupingSkipped ==
  [][/\ (lastOp'.op \in {"construct", "initializeState", "updateParentState"})
         => \A e \in emptyUl : Unchanged(e)
     /\ (lastOp'.op \in {"construct", "initializeState"})
         => /\ Len(log') = Cardinality(Groupings)
            /\ \A k \in 1..Len(log') :
                 log'[k][1] = "update" /\ log'[k][2] \in Groupings
            /\ \A i \in Items : ~HasChildren(i) => Unchanged(i)]_vars

\* a pass from the body, whose lists include the top-level list, has
\* recomputed the owner of an empty list that is indeterminate
C15_Witness ==
  /\ lastOp.op = "construct" /\ lastOp.sel.el = Body
  /\ Ul(0) \in {querySelectorAllUl(roots[1])[k] :
                  k \in 1..Len(querySelectorAllUl(roots[1]))}
  /\ \E e \in emptyUl :
       /\ indeterminate[e] /\ ~checked[e]
       /\ \E k \in 1..Len(log) : log[k][2] = e
  /\ \E a \in Items : HasChildren(a) /\ checked[a]

\* the positions of the next log whose entry has the given kind
NextPositions(kind) == {k \in 1..Len(log') : log'[k][1] = kind}

AncestorSet(n) == {AncestorsOf(n)[k] : k \in 1..Len(AncestorsOf(n))}

\* C16: a toggle never raises.  On a leaf it writes no descendant, changes
\* nothing outside the proper ancestors, and still recomputes every proper
\* ancestor; on a top-level node it writes every descendant and recomputes
\* no ancestor.
C16_StructuralAbsence ==
  [][(lastOp'.op = "toggle") =>
       LET n == lastOp'.node
       IN  /\ ~thrown'
           /\ checked'[n] = lastOp'.value
           /\ ChildItems(n) = {} =>
                /\ NextPositions("write") = {}
                /\ {log'[k][2] : k \in NextPositions("update")}
                     = AncestorSet(n)
                /\ \A i \in Items \ (AncestorSet(n) \cup {n}) :
                     Unchanged(i)
           /\ par[n] = 0 =>
                /\ NextPositions("update") = {}
                /\ {log'[k][2] : k \in NextPositions("write")}
                     = Descendants(n)
                /\ \A d \in Descendants(n) :
                     checked'[d] = lastOp'.value /\ ~indeterminate'[d]
                /\ \A i \in Items \ (Descendants(n) \cup {n}) :
                     Unchanged(i)]_vars

\* a leaf with a sibling and two proper ancestors has been checked: nothing
\* was written below it and both ancestors were recomputed
C16_Witness ==
  /\ par = <<0, 1, 2, 2>> /\ lastOp = Op("toggle", 3, TRUE, NoSelector)
  /\ ~thrown /\ Positions("write") = {}
  /\ {log[k][2] : k \in Positions("update")} = {1, 2}
  /\ ~checked[4] /\ indeterminate[2] /\ indeterminate[1]

\* C17: a toggle of node n leaves n checked as set and n's indeterminate
\* value as it was, and changes no node that is neither a descendant nor a
\* proper ancestor of n: siblings, their subtrees and the other top-level
\* trees keep both values.
C17_ToggleFrame ==
  [][(lastOp'.op = "toggle") =>
       LET n == lastOp'.node
       IN  /\ checked'[n] = lastOp'.value
           /\ indeterminate'[n] = indeterminate[n]
           /\ \A i \in Items \ {n} :
                (i \notin Descendants(n) /\ i \notin AncestorSet(n))
                  => Unchanged(i)]_vars

\* a leaf has been unchecked beside a sibling subtree that stays checked
C17_Witness ==
  /\ par = <<0, 1, 1, 3>> /\ lastOp = Op("toggle", 2, FALSE, NoSelector)
  /\ ~checked[2] /\ checked[3] /\ checked[4] /\ indeterminate[1]

\* the leaves in the subtree of item a
LeavesUnder(a) == {l \in Descendants(a) : ChildItems(l) = {}}

\* C18: when no leaf starts indeterminate, after initialization and any
\* toggles each non-leaf node is checked iff every leaf below it is checked,
\* unchecked and not indeterminate iff every leaf below it is unchecked,
\* and indeterminate iff there are a checked and an unchecked leaf below it.
C18_LeafLevelMeaning ==
  phase = "constructed" =>
    \A a \in Items : HasChildren(a) =>
      /\ checked[a] <=> (\A l \in LeavesUnder(a) : checked[l])
      /\ (~checked[a] /\ ~indeterminate[a])
           <=> (\A l \in LeavesUnder(a) : ~checked[l])
      /\ indeterminate[a]
           <=> (\E l, m \in LeavesUnder(a) : checked[l] /\ ~checked[m])

\* C19: for every root set the constructor accepts, until destroy() the
\* observers attached are exactly the (checkbox, handler) pairs held in
\* _handlers, at most one per checkbox, and after destroy() no observer the
\* instance attached is left.
C19_ObserverBookkeeping ==
  (phase = "constructed" /\ handlers.defined) =>
    /\ ~destroyed =>
         /\ listeners = handlers.map
         /\ \A i \in Items : Cardinality({l \in listeners : l[1] = i}) <= 1
    /\ destroyed => listeners = {}

\* two nodes of which neither is an ancestor of the other
Unrelated(a, b) == a # b /\ ~IsDescendant(a, b) /\ ~IsDescendant(b, a)

\* C20: when a toggle of B is taken, then for every node A unrelated to B
\* and all values vA and vB, toggling B to vB and then A to vA leaves the
\* state that toggling A to vA and then B to vB leaves.  For the value the
\* step sets, the state after B is the one the step itself leaves; for the
\* value B already holds, A is set to the value it holds too, the pairs in
\* which A flips being those of the steps that flip A.
C20_UnrelatedTogglesCommute ==
  [][(lastOp'.op = "toggle") =>
       LET b == lastOp'.node
       IN  \A a \in Items, vA \in BOOLEAN, vB \in BOOLEAN :
             (Unrelated(a, b) /\ (vB = lastOp'.value \/ vA = checked[a])) =>
               LET afterB == IF vB = lastOp'.value
                             THEN [checked |-> checked',
                                   indeterminate |-> indeterminate']
                             ELSE setAndDispatch(Boxes, b, vB, listeners)
               IN  setAndDispatch(afterB, a, vA, listeners)
                     = setAndDispatch(setAndDispatch(Boxes, a, vA, listeners),
                                      b, vB, listeners)]_vars

\* two unrelated nodes under a common ancestor have been toggled to
\* different values, the second of them a nested one
C20_Witness ==
  /\ par = <<0, 1, 2, 1>> /\ lastOp = Op("toggle", 3, TRUE, NoSelector)
  /\ Unrelated(3, 4)
  /\ checked[3] /\ checked[2] /\ ~checked[4] /\ indeterminate[1]
  /\ setAndDispatch(Boxes, 4, TRUE, listeners).checked[1]

\* the checkbox of item i lies inside one of the instance's root containers
InsideRoots(i) == \E k \in 1..Len(roots) : IsAncestor(roots[k], Input(i))

\* C21: a toggle of a node inside one of the instance's root containers
\* changes neither value of any node that lies outside all of them, also
\* when a root container is nested in a list item that carries a checkbox.
C21_ConfinedToRoots ==
  [][(lastOp'.op = "toggle" /\ InsideRoots(lastOp'.node)) =>
       \A i \in Items : ~InsideRoots(i) => Unchanged(i)]_vars
====
